---------------------------- MODULE Spec2Model ----------------------------
(***************************************************************************)
(* A model of rodaine/hclencoder: the string escaper (EscapeString), the   *)
(* reflective tree encoder (encodeField, encodeStruct, tokenize, ...) and  *)
(* the document assembler (Encode).                                        *)
(*                                                                         *)
(* Strings that are escaped are sequences of Unicode code points (Go       *)
(* ranges over a string rune by rune); names (field names, tags, map keys) *)
(* are TLA+ strings.  Inputs are well-formed UTF-8, so the byte tests      *)
(* s[i-1] and s[i+1] of EscapeString, which only ever compare with the     *)
(* one-byte runes '$' and '{', coincide with tests on neighbouring runes.  *)
(***************************************************************************)
EXTENDS Integers, Sequences, FiniteSets, TLC

VARIABLES
    s,           \* EscapeString: the input string
    i,           \* EscapeString: index of the next rune (1-based)
    stack,       \* EscapeString: the state stack
    escapeNext,  \* EscapeString: the backslash flag
    result,      \* EscapeString: the output built so far
    epc,         \* EscapeString: "run" | "done" | "idle"
    in,          \* Encode: the value handed to Encode
    node,        \* Encode: what encode returned for it
    out,         \* Encode: what Encode returned
    pc           \* Encode: "start" | "done" | "idle"

vars == <<s, i, stack, escapeNext, result, epc, in, node, out, pc>>
escVars == <<s, i, stack, escapeNext, result, epc>>
encVars == <<in, node, out, pc>>

(***************************************************************************)
(* Bounds of the model.                                                    *)
(***************************************************************************)
\* longest exhaustively enumerated escaper input
MaxLen == 3
\* most fields of an enumerated record
MaxFields == 3
\* most elements of an enumerated slice of records
MaxElems == 2
\* most entries of an enumerated map
MaxKeys == 2

(***************************************************************************)
(* Runes.                                                                  *)
(***************************************************************************)
TAB == 9
NL == 10
CR == 13
QUOTE == 34
DOLLAR == 36
BACKSLASH == 92
OBRACE == 123
CBRACE == 125
\* runes the inputs are drawn from besides the ones above: a letter, the
\* control character U+0001, the printable non-ASCII letter U+00E9, the
\* printable symbol U+1F600 (above the 16-bit range), the format character
\* U+E0001 (not printable, above the 16-bit range) and the backtick
Sample == [letter |-> 97, ctrl |-> 1, eacute |-> 233, grin |-> 128512,
           langtag |-> 917505, backtick |-> 96]

Sigma == {TAB, NL, CR, QUOTE, DOLLAR, BACKSLASH, OBRACE, CBRACE, Sample.letter,
          Sample.ctrl, Sample.eacute, Sample.grin, Sample.langtag}

\* unicode.IsPrint on the runes of Sigma: letters, marks, numbers,
\* punctuation, symbols and the ASCII space
IsPrint(r) ==
    \/ r >= 32 /\ r <= 126
    \/ r >= 161 /\ r <= 255 /\ r # 173
    \/ r = Sample.grin

RECURSIVE HexDigits(_)
\* the lower-case hexadecimal digits of n, most significant first (%x)
HexDigits(n) ==
    LET d == n % 16
        c == IF d < 10 THEN 48 + d ELSE 87 + d
    IN IF n < 16 THEN <<c>> ELSE Append(HexDigits(n \div 16), c)

RECURSIVE ZeroPad(_, _)
\* left padding with '0' up to the width w (%0wx)
ZeroPad(ds, w) == IF Len(ds) >= w THEN ds ELSE ZeroPad(<<48>> \o ds, w)

\* fmt.Sprintf("\\u%04x", r) and fmt.Sprintf("\\u%08x", r)
SprintfU(w, r) == <<BACKSLASH, 117>> \o ZeroPad(HexDigits(r), w)

\* a buggy escapeAndAppend: the backslash is copied, not doubled
escapeAndAppendNoBackslash(buf, r, escapeQuote) ==
    CASE r = NL -> buf \o <<BACKSLASH, 110>>
      [] r = CR -> buf \o <<BACKSLASH, 114>>
      [] r = TAB -> buf \o <<BACKSLASH, 116>>
      [] r = QUOTE -> IF escapeQuote THEN buf \o <<BACKSLASH, QUOTE>>
                                     ELSE Append(buf, QUOTE)
      [] OTHER -> IF ~IsPrint(r)
                  THEN IF r < 65536 THEN buf \o SprintfU(4, r)
                                    ELSE buf \o SprintfU(8, r)
                  ELSE Append(buf, r)

escapeAndAppend(buf, r, escapeQuote) ==
    CASE r = NL -> buf \o <<BACKSLASH, 110>>
      [] r = CR -> buf \o <<BACKSLASH, 114>>
      [] r = TAB -> buf \o <<BACKSLASH, 116>>
      [] r = QUOTE -> IF escapeQuote THEN buf \o <<BACKSLASH, QUOTE>>
                                     ELSE Append(buf, QUOTE)
      [] r = BACKSLASH -> buf \o <<BACKSLASH, BACKSLASH>>
      [] OTHER -> IF ~IsPrint(r)
                  THEN IF r < 65536 THEN buf \o SprintfU(4, r)
                                    ELSE buf \o SprintfU(8, r)
                  ELSE Append(buf, r)

(***************************************************************************)
(* EscapeString, one iteration of its loop per step.  A machine state is   *)
(* [stack, escapeNext, result]; str is the whole input, j the index of the *)
(* rune the iteration reads.                                               *)
(***************************************************************************)
Top(st) == st.stack[Len(st.stack)]
Pop(stk) == SubSeq(stk, 1, Len(stk) - 1)

\* c == '$' && (i == 0 || s[i-1] != '$') && (i < len(s)-1 && s[i+1] == '{')
StartsTemplate(str, j) ==
    /\ str[j] = DOLLAR
    /\ (j = 1 \/ str[j - 1] # DOLLAR)
    /\ (j < Len(str) /\ str[j + 1] = OBRACE)

\* a buggy case "": a '}' of the plain text pops the stack
StepPlainOpPopping(st, str, j) ==
    [stack |-> IF StartsTemplate(str, j) THEN Append(st.stack, "${")
               ELSE IF str[j] = CBRACE THEN Pop(st.stack) ELSE st.stack,
     escapeNext |-> st.escapeNext,
     result |-> escapeAndAppend(st.result, str[j], TRUE)]

\* case "": the plain state
StepPlainOp(st, str, j) ==
    [stack |-> IF StartsTemplate(str, j) THEN Append(st.stack, "${") ELSE st.stack,
     escapeNext |-> st.escapeNext,
     result |-> escapeAndAppend(st.result, str[j], TRUE)]

\* case "${": inside an expression
StepExprOp(st, str, j) ==
    LET c == str[j]
        s1 == IF c = QUOTE THEN Append(st.stack, "\"") ELSE st.stack
        s2 == IF c = CBRACE THEN Pop(s1) ELSE s1
    IN [stack |-> s2, escapeNext |-> st.escapeNext, result |-> Append(st.result, c)]

\* a buggy case "\"": the characters of the nested literal are escaped
StepQuotedOpEscaping(st, str, j) ==
    LET c == str[j]
        tpl == StartsTemplate(str, j)
        s1 == IF tpl THEN Append(st.stack, "${") ELSE st.stack
        e1 == IF tpl THEN FALSE ELSE st.escapeNext
        s2 == IF c = QUOTE /\ ~e1 THEN Pop(s1) ELSE s1
        e2 == IF c = BACKSLASH THEN ~e1 ELSE e1
    IN [stack |-> s2, escapeNext |-> e2,
        result |-> escapeAndAppend(st.result, c, TRUE)]

\* case "\"": inside a quoted string of an expression
StepQuotedOp(st, str, j) ==
    LET c == str[j]
        tpl == StartsTemplate(str, j)
        s1 == IF tpl THEN Append(st.stack, "${") ELSE st.stack
        e1 == IF tpl THEN FALSE ELSE st.escapeNext
        s2 == IF c = QUOTE /\ ~e1 THEN Pop(s1) ELSE s1
        e2 == IF c = BACKSLASH THEN ~e1 ELSE e1
    IN [stack |-> s2, escapeNext |-> e2, result |-> Append(st.result, c)]

\* stack := []string{""}; escapeNext := false; result empty
EscInit == [stack |-> <<"">>, escapeNext |-> FALSE, result |-> <<>>]

\* the body of the loop: the switch on the top of the stack
EscStep(st, str, j) ==
    CASE Top(st) = "" -> StepPlainOp(st, str, j)
      [] Top(st) = "${" -> StepExprOp(st, str, j)
      [] Top(st) = "\"" -> StepQuotedOp(st, str, j)

RECURSIVE EscRun(_, _, _)
EscRun(st, str, j) ==
    IF j > Len(str) THEN st ELSE EscRun(EscStep(st, str, j), str, j + 1)

\* EscapeString as a function of its input
EscapeString(str) == EscRun(EscInit, str, 1).result

(***************************************************************************)
(* The inputs of the escaper: every string over Sigma up to MaxLen runes,  *)
(* and the strings  pre ${ b1 lit b2 } post  built from the pieces below   *)
(* (lit is empty or a quoted string literal nested in the expression).     *)
(***************************************************************************)
RECURSIVE Strings(_, _)
Strings(alphabet, n) ==
    IF n = 0 THEN {<<>>}
    ELSE LET shorter == Strings(alphabet, n - 1)
         IN shorter \cup {Append(w, c) : w \in {x \in shorter : Len(x) = n - 1},
                                          c \in alphabet}

PreSet == {<<>>, <<Sample.letter>>, <<NL>>, <<QUOTE>>, <<DOLLAR>>}
BodySet == {<<>>, <<Sample.letter>>, <<NL>>, <<OBRACE, Sample.letter, CBRACE>>}
LitSet == {<<>>, <<Sample.letter>>, <<NL>>, <<BACKSLASH, QUOTE>>,
           <<BACKSLASH, Sample.letter>>, <<BACKSLASH, BACKSLASH>>, <<CBRACE>>,
           <<DOLLAR, OBRACE, Sample.letter, CBRACE>>}
QuotedSet == {<<>>} \cup {<<QUOTE>> \o q \o <<QUOTE>> : q \in LitSet}
PostSet == {<<>>, <<Sample.letter>>, <<NL>>, <<QUOTE>>, <<BACKSLASH>>}

Template(pre, b1, lit, b2, post) ==
    pre \o <<DOLLAR, OBRACE>> \o b1 \o lit \o b2 \o <<CBRACE>> \o post

Templates ==
    {Template(pre, b1, lit, b2, post) :
        pre \in PreSet, b1 \in BodySet, lit \in QuotedSet, b2 \in BodySet,
        post \in PostSet}

EscInputs == Strings(Sigma, MaxLen) \cup Templates

(***************************************************************************)
(* Values: what reflect shows of a Go value.  The encoder's state while    *)
(* the escaper runs, and the escaper's while the encoder runs, is idle.    *)
(***************************************************************************)
NoValue == [k |-> "none"]
NoResult == [kind |-> "none"]

EscIdle ==
    /\ s = <<>> /\ i = 1 /\ stack = <<"">> /\ escapeNext = FALSE
    /\ result = <<>> /\ epc = "idle"

EncIdle == in = NoValue /\ node = NoResult /\ out = NoResult /\ pc = "idle"

(***************************************************************************)
(* The escaper as a state machine: SpecEscape.                             *)
(***************************************************************************)
EscState == [stack |-> stack, escapeNext |-> escapeNext, result |-> result]

EscInitState ==
    /\ s \in EscInputs
    /\ i = 1
    /\ stack = EscInit.stack
    /\ escapeNext = EscInit.escapeNext
    /\ result = EscInit.result
    /\ epc = "run"
    /\ EncIdle

EscApply(next) ==
    /\ stack' = next.stack
    /\ escapeNext' = next.escapeNext
    /\ result' = next.result
    /\ i' = i + 1
    /\ UNCHANGED <<s, epc, in, node, out, pc>>

\* an iteration of the loop with the plain state on top
EscPlain ==
    /\ epc = "run" /\ i <= Len(s) /\ stack[Len(stack)] = ""
    /\ EscApply(StepPlainOp(EscState, s, i))

\* an iteration of the loop inside an expression
EscExpr ==
    /\ epc = "run" /\ i <= Len(s) /\ stack[Len(stack)] = "${"
    /\ EscApply(StepExprOp(EscState, s, i))

\* an iteration of the loop inside a quoted string of an expression
EscQuoted ==
    /\ epc = "run" /\ i <= Len(s) /\ stack[Len(stack)] = "\""
    /\ EscApply(StepQuotedOp(EscState, s, i))

\* return string(result)
EscReturn ==
    /\ epc = "run" /\ i > Len(s)
    /\ epc' = "done"
    /\ UNCHANGED <<s, i, stack, escapeNext, result, in, node, out, pc>>

EscNext == EscPlain \/ EscExpr \/ EscQuoted \/ EscReturn

SpecEscape == EscInitState /\ [][EscNext]_vars

\* the loop is sequential code: an iteration or the return that can be
\* taken is taken
SpecEscapeFair == SpecEscape /\ WF_vars(EscNext)

(***************************************************************************)
(* The tree encoder.                                                       *)
(*                                                                         *)
(* A value is what reflect shows of it:                                    *)
(*   [k |-> "bool", bv], [k |-> "int", iv], [k |-> "float64", fv],         *)
(*   [k |-> "string", sv]          sv a sequence of runes                  *)
(*   [k |-> "chan"]                a kind the encoder does not support     *)
(*   [k |-> "invalid"]             reflect.ValueOf(nil)                    *)
(*   [k |-> "ptr", nil, elem], [k |-> "interface", nil, elem]              *)
(*   [k |-> "slice", nil, et, el]  et the kind of the element type once    *)
(*                                 its pointers are stripped, el the       *)
(*                                 elements                                *)
(*   [k |-> "map", nil, kt, ent]   kt the kind of the key type, ent the    *)
(*                                 entries [key, val] in the order         *)
(*                                 MapKeys enumerates them                 *)
(*   [k |-> "struct", fields]      fields [name, anonymous, tname, hcl,    *)
(*                                 hcle, val]; hcl and hcle are the tag    *)
(*                                 values already split at the commas      *)
(*                                 (strings.Split of "" is <<"">>)         *)
(***************************************************************************)
None == <<>>
Some(x) == <<x>>

\* the zero fieldMeta{}
ZeroMeta ==
    [anonymous |-> FALSE, name |-> "", key |-> FALSE, squash |-> FALSE,
     repeatBlock |-> FALSE, expression |-> FALSE, unusedKeys |-> FALSE,
     decodedFields |-> FALSE, omit |-> FALSE, omitEmpty |-> FALSE]

\* a buggy extractFieldMeta: a flag is looked for in the tokens of both tags
extractFieldMetaAnyTag(f) ==
    LET all == {f.hcl[n] : n \in 2..Len(f.hcl)} \cup {f.hcle[n] : n \in 1..Len(f.hcle)}
        name0 == IF f.anonymous THEN f.tname ELSE f.name
    IN [anonymous |-> f.anonymous,
        name |-> IF Len(f.hcl) > 0 /\ f.hcl[1] # "" THEN f.hcl[1] ELSE name0,
        key |-> "key" \in all,
        squash |-> "squash" \in all,
        repeatBlock |-> "blocks" \in all,
        expression |-> "expr" \in all,
        unusedKeys |-> "unusedKeys" \in all,
        decodedFields |-> "decodedFields" \in all,
        omit |-> "omit" \in all,
        omitEmpty |-> "omitempty" \in all]

\* extractFieldMeta: the name and the flags of a struct field
extractFieldMeta(f) ==
    LET tags == f.hcl
        rest == {tags[n] : n \in 2..Len(tags)}
        etags == {f.hcle[n] : n \in 1..Len(f.hcle)}
        name0 == IF f.anonymous THEN f.tname ELSE f.name
    IN [anonymous |-> f.anonymous,
        name |-> IF Len(tags) > 0 /\ tags[1] # "" THEN tags[1] ELSE name0,
        key |-> "key" \in rest,
        squash |-> "squash" \in rest,
        repeatBlock |-> "blocks" \in rest,
        expression |-> "expr" \in rest,
        unusedKeys |-> "unusedKeys" \in rest,
        decodedFields |-> "decodedFields" \in rest,
        omit |-> "omit" \in etags,
        omitEmpty |-> "omitempty" \in etags]

RECURSIVE deref(_)
\* a buggy deref: a nil slice or map is not reported as nil
derefNilSlicePresent(v) ==
    CASE v.k = "invalid" -> [val |-> v, isNil |-> TRUE]
      [] v.k \in {"interface", "ptr"} ->
            IF v.nil THEN [val |-> v, isNil |-> TRUE] ELSE deref(v.elem)
      [] OTHER -> [val |-> v, isNil |-> FALSE]

\* deref: the value under its pointers and interfaces, and whether it is nil
deref(v) ==
    CASE v.k = "invalid" -> [val |-> v, isNil |-> TRUE]
      [] v.k \in {"interface", "ptr"} ->
            IF v.nil THEN [val |-> v, isNil |-> TRUE] ELSE deref(v.elem)
      [] v.k \in {"slice", "map"} -> [val |-> v, isNil |-> v.nil]
      [] OTHER -> [val |-> v, isNil |-> FALSE]

RECURSIVE IsZero(_)
\* reflect.DeepEqual(rawVal.Interface(), reflect.Zero(rawVal.Type()).Interface())
IsZero(v) ==
    CASE v.k = "bool" -> v.bv = FALSE
      [] v.k = "int" -> v.iv = 0
      [] v.k = "float64" -> v.fv = 0
      [] v.k = "string" -> v.sv = <<>>
      [] v.k = "chan" -> TRUE
      [] v.k \in {"ptr", "interface", "slice", "map"} -> v.nil
      [] v.k = "struct" -> \A n \in 1..Len(v.fields) : IsZero(v.fields[n].val)
      [] OTHER -> FALSE

(***************************************************************************)
(* hclwrite: tokens, bodies and blocks.  A body is the sequence of its     *)
(* items: [it |-> "attr", name, tokens], [it |-> "block", block] or        *)
(* [it |-> "tokens", tokens] (unstructured tokens).                        *)
(***************************************************************************)
Tok(t) == [t |-> t]
tokenEqual == Tok("=")
tokenComma == Tok(",")
tokenOCurlyBrace == Tok("{")
tokenCCurlyBrace == Tok("}")
tokenOBrack == Tok("[")
tokenCBrack == Tok("]")

\* hclwrite.TokensForValue of a bool or a number
TokensForScalar(v) ==
    CASE v.k = "bool" -> <<[t |-> "bool", bv |-> v.bv]>>
      [] v.k = "int" -> <<[t |-> "number", iv |-> v.iv]>>
      [] v.k = "float64" -> <<[t |-> "number", fv |-> v.fv]>>

\* hclwrite.TokensForValue(cty.StringVal(name)) for a field name or map key
TokensForName(name) == <<Tok("oquote"), [t |-> "quotedlit", name |-> name], Tok("cquote")>>

\* hclwrite.TokensForValue(cty.StringVal(str)) for a string of runes
TokensForString(str) == <<Tok("oquote"), [t |-> "quotedlit", sv |-> str], Tok("cquote")>>

\* hclwrite.NewBlock(name, nil)
NewBlock(name) == [type |-> name, labels |-> <<>>, body |-> <<>>]

\* Body.AppendBlock
AppendBlock(body, block) == Append(body, [it |-> "block", block |-> block])

\* Body.AppendUnstructuredTokens
AppendUnstructuredTokens(body, tkns) == Append(body, [it |-> "tokens", tokens |-> tkns])

\* Body.SetAttributeRaw: the attribute of that name gets the tokens, and is
\* appended when the body has none
SetAttributeRaw(body, name, tkns) ==
    LET at == {n \in 1..Len(body) : body[n].it = "attr" /\ body[n].name = name}
    IN IF at = {} THEN Append(body, [it |-> "attr", name |-> name, tokens |-> tkns])
       ELSE [body EXCEPT ![CHOOSE n \in at : \A m \in at : n <= m].tokens = tkns]

\* Body.SetAttributeValue
SetAttributeValue(body, name, val) == SetAttributeRaw(body, name, TokensForString(val.str))

RECURSIVE BuildTokens(_), ItemTokens(_), LabelTokens(_)
LabelTokens(labels) ==
    IF labels = <<>> THEN <<>>
    ELSE <<[t |-> "label", sv |-> Head(labels)]>> \o LabelTokens(Tail(labels))

ItemTokens(item) ==
    CASE item.it = "attr" ->
            <<[t |-> "ident", name |-> item.name], tokenEqual>> \o item.tokens
                \o <<Tok("newline")>>
      [] item.it = "block" ->
            <<[t |-> "ident", name |-> item.block.type]>> \o LabelTokens(item.block.labels)
                \o <<tokenOCurlyBrace, Tok("newline")>> \o BuildTokens(item.block.body)
                \o <<tokenCCurlyBrace, Tok("newline")>>
      [] item.it = "tokens" -> item.tokens

\* Body.BuildTokens(nil): the tokens of the items, in order
BuildTokens(body) ==
    IF body = <<>> THEN <<>> ELSE ItemTokens(Head(body)) \o BuildTokens(Tail(body))

\* SquashBlock: the tokens of the inner block's body go into the body
SquashBlock(innerBlock, body) == AppendUnstructuredTokens(body, BuildTokens(innerBlock.body))

(***************************************************************************)
(* Results.  A call returns a node or tokens ("ok"), nil and no error      *)
(* ("nil"), an error ("err") or panics ("panic").                          *)
(***************************************************************************)
Ok(x) == [r |-> "ok", v |-> x]
OkNil == [r |-> "nil"]
Err(e) == [r |-> "err", err |-> e]
Panic(w) == [r |-> "panic", what |-> w]

EmptyNode == [Block |-> None, BlockList |-> None, Value |-> None, Tokens |-> None]
isValue(n) == n.Value # None
isBlock(n) == n.Block # None
isBlockList(n) == n.BlockList # None
isTokens(n) == n.Tokens # None

\* the runes of the names that are sorted
NameRunes(name) ==
    CASE name = "a" -> <<97>>
      [] name = "b" -> <<98>>
      [] name = "B" -> <<66>>
      [] name = "ab" -> <<97, 98>>

RECURSIVE RunesLess(_, _)
\* x < y on Go strings: bytewise lexicographic
RunesLess(x, y) ==
    IF y = <<>> THEN FALSE
    ELSE IF x = <<>> THEN TRUE
    ELSE IF Head(x) # Head(y) THEN Head(x) < Head(y)
    ELSE RunesLess(Tail(x), Tail(y))

RECURSIVE InsertSorted(_, _)
InsertSorted(sorted, k) ==
    IF sorted = <<>> THEN <<k>>
    ELSE IF RunesLess(NameRunes(k), NameRunes(Head(sorted))) THEN <<k>> \o sorted
    ELSE <<Head(sorted)>> \o InsertSorted(Tail(sorted), k)

\* a buggy sort.Strings: the keys stay in the order MapKeys gave them
SortStringsIdentity(keys) == keys

RECURSIVE SortStrings(_)
\* sort.Strings
SortStrings(keys) ==
    IF keys = <<>> THEN <<>>
    ELSE InsertSorted(SortStrings(SubSeq(keys, 1, Len(keys) - 1)), keys[Len(keys)])

\* in.MapKeys(): the keys in enumeration order
MapKeys(m) == [n \in 1..Len(m.ent) |-> m.ent[n].key]

\* in.MapIndex(k)
MapIndex(m, k) == (CHOOSE e \in {m.ent[n] : n \in 1..Len(m.ent)} : e.key = k).val

\* the rune '`', which the lexer rejects outside a quoted string
Backtick == Sample.backtick

\* hclsyntax.LexExpression: the tokens of the text, ended by the EOF token;
\* diagnostics when the text has a character the lexer rejects
LexExpression(text) ==
    IF (text = <<>> \/ Head(text) # QUOTE) /\ \E n \in 1..Len(text) : text[n] = Backtick
    THEN Err("error when parsing string")
    ELSE Ok(<<[t |-> "lexed", src |-> text], Tok("eof")>>)

RECURSIVE tokenize(_, _), tokenizeFields(_, _, _), tokenizeElems(_, _, _, _),
          tokenizeKeys(_, _, _, _)

\* the loop of tokenize over the fields of a struct, from field n on
tokenizeFields(v, n, acc) ==
    IF n > Len(v.fields) THEN Ok(Append(acc, tokenCCurlyBrace))
    ELSE LET f == v.fields[n]
             meta == extractFieldMeta(f)
         IN IF meta.omitEmpty /\ IsZero(f.val) THEN tokenizeFields(v, n + 1, acc)
            ELSE LET r == tokenize(f.val, meta)
                 IN IF r.r # "ok" THEN r
                    ELSE tokenizeFields(v, n + 1,
                            acc \o TokensForName(meta.name) \o <<tokenEqual>> \o r.v
                                \o IF n < Len(v.fields) THEN <<tokenComma>> ELSE <<>>)

\* the loop of tokenize over the elements of a slice, from element n on
tokenizeElems(v, meta, n, acc) ==
    IF n > Len(v.el) THEN Ok(Append(acc, tokenCBrack))
    ELSE LET r == tokenize(v.el[n], meta)
         IN IF r.r # "ok" THEN r
            ELSE tokenizeElems(v, meta, n + 1,
                    acc \o r.v \o IF n < Len(v.el) THEN <<tokenComma>> ELSE <<>>)

\* the loop of tokenize over the sorted keys of a map, from key n on
tokenizeKeys(v, meta, keys, acc) ==
    IF keys = <<>> THEN Ok(Append(acc, tokenCCurlyBrace))
    ELSE LET r == tokenize(MapIndex(v, Head(keys)), meta)
         IN IF r.r # "ok" THEN r
            ELSE tokenizeKeys(v, meta, Tail(keys),
                    acc \o TokensForName(Head(keys)) \o <<tokenEqual>> \o r.v
                        \o IF Len(keys) > 1 THEN <<tokenComma>> ELSE <<>>)

\* a buggy tokenize: a string is quoted and escaped with or without expr
tokenizeAlwaysQuoted(v, meta) ==
    CASE v.k \in {"bool", "int", "float64"} -> Ok(TokensForScalar(v))
      [] v.k = "string" -> LexExpression(<<QUOTE>> \o EscapeString(v.sv) \o <<QUOTE>>)
      [] v.k \in {"ptr", "interface"} ->
            LET d == deref(v) IN IF d.isNil THEN Ok(<<>>) ELSE tokenize(d.val, meta)
      [] v.k = "struct" -> tokenizeFields(v, 1, <<tokenOCurlyBrace>>)
      [] v.k = "slice" -> tokenizeElems(v, meta, 1, <<tokenOBrack>>)
      [] v.k = "map" ->
            IF v.kt # "string" THEN Err("map keys must be strings")
            ELSE tokenizeKeys(v, meta, SortStrings(MapKeys(v)), <<tokenOCurlyBrace>>)
      [] OTHER -> Err("cannot encode primitive kind to token")

\* tokenize: a value as the tokens of a literal; a nil pointer or interface
\* has no tokens
tokenize(v, meta) ==
    CASE v.k \in {"bool", "int", "float64"} -> Ok(TokensForScalar(v))
      [] v.k = "string" ->
            LexExpression(IF ~meta.expression
                          THEN <<QUOTE>> \o EscapeString(v.sv) \o <<QUOTE>>
                          ELSE v.sv)
      [] v.k \in {"ptr", "interface"} ->
            LET d == deref(v) IN IF d.isNil THEN Ok(<<>>) ELSE tokenize(d.val, meta)
      [] v.k = "struct" -> tokenizeFields(v, 1, <<tokenOCurlyBrace>>)
      [] v.k = "slice" -> tokenizeElems(v, meta, 1, <<tokenOBrack>>)
      [] v.k = "map" ->
            IF v.kt # "string" THEN Err("map keys must be strings")
            ELSE tokenizeKeys(v, meta, SortStrings(MapKeys(v)), <<tokenOCurlyBrace>>)
      [] OTHER -> Err("cannot encode primitive kind to token")

\* the name of the Go type of a value that is not a string, as reflect
\* prints it; every composite type is named T here
GoTypeName(v) ==
    CASE v.k = "bool" -> <<98, 111, 111, 108>>
      [] v.k = "int" -> <<105, 110, 116>>
      [] v.k = "float64" -> <<102, 108, 111, 97, 116, 54, 52>>
      [] OTHER -> <<84>>

\* reflect.Value.String(): the string of a string, "<T Value>" of any other
\* kind (it does not panic)
ReflectString(v) ==
    IF v.k = "string" THEN v.sv
    ELSE <<60>> \o GoTypeName(v) \o <<32, 86, 97, 108, 117, 101, 62>>

\* cty.StringVal
StringVal(str) == [type |-> "string", str |-> str]

\* encodePrimitive: the string value of a key, the tokens of anything else
encodePrimitive(v, meta) ==
    IF meta.key THEN Ok([EmptyNode EXCEPT !.Value = Some(StringVal(ReflectString(v)))])
    ELSE LET r == tokenize(v, meta)
         IN IF r.r # "ok" THEN r ELSE Ok([EmptyNode EXCEPT !.Tokens = Some(r.v)])

\* encodePrimitiveList
encodePrimitiveList(v, meta) == encodePrimitive(v, meta)

\* block.SetLabels(append(block.Labels(), label)), prepending instead
AppendLabelFront(block, label) == [block EXCEPT !.labels = <<label>> \o @]

\* block.SetLabels(append(block.Labels(), label))
AppendLabel(block, label) == [block EXCEPT !.labels = Append(@, label)]

\* a buggy squash: the inner block is nested, its labels are kept on it
SquashIntoNested(block, inner) == [block EXCEPT !.body = AppendBlock(@, inner)]

\* the squash branch of encodeStruct: the inner block's body is spliced
\* into the body and its labels are appended to the labels
SquashInto(block, inner) ==
    [block EXCEPT !.body = SquashBlock(inner, @), !.labels = @ \o inner.labels]

RECURSIVE AppendBlocks(_, _)
\* for _, innerBlock := range val.BlockList { block.Body().AppendBlock(innerBlock) }
AppendBlocks(body, blocks) ==
    IF blocks = <<>> THEN body
    ELSE AppendBlocks(AppendBlock(body, Head(blocks)), Tail(blocks))

\* a buggy skip test: omit and the debug markers are not looked at
SkipsFieldOmitEmptyOnly(meta, rawVal) == meta.omitEmpty /\ IsZero(rawVal)

\* the tests of encodeStruct that skip a field before it is encoded
SkipsField(meta, rawVal) ==
    \/ meta.unusedKeys \/ meta.decodedFields \/ meta.omit
    \/ meta.omitEmpty /\ IsZero(rawVal)

\* a buggy placement: a list of structs is always a list of blocks
WantsBlocksAlways(meta) == TRUE

\* if !meta.repeatBlock { return encodePrimitiveList(in, meta) }
WantsBlocks(meta) == meta.repeatBlock

\* a buggy placement: a squash field that is no block is placed as if it
\* had no squash flag
PlaceNodeSquashAnything(block, meta, val) ==
    IF meta.key
    THEN IF isValue(val) /\ val.Value[1].type = "string"
         THEN Ok(AppendLabel(block, val.Value[1].str))
         ELSE Err("struct key fields must be string literals")
    ELSE IF isBlock(val)
         THEN IF meta.squash THEN Ok(SquashInto(block, val.Block[1]))
              ELSE Ok([block EXCEPT !.body = AppendBlock(@, val.Block[1])])
    ELSE IF isBlockList(val)
         THEN Ok([block EXCEPT !.body = AppendBlocks(@, val.BlockList[1])])
    ELSE IF isValue(val)
         THEN Ok([block EXCEPT !.body = SetAttributeValue(@, meta.name, val.Value[1])])
    ELSE IF isTokens(val)
         THEN Ok([block EXCEPT !.body = SetAttributeRaw(@, meta.name, val.Tokens[1])])
    ELSE Err("unknown value type")

\* the part of the loop body of encodeStruct that places the node of a
\* field in the block
PlaceNode(block, meta, val) ==
    IF meta.key
    THEN IF isValue(val) /\ val.Value[1].type = "string"
         THEN Ok(AppendLabel(block, val.Value[1].str))
         ELSE Err("struct key fields must be string literals")
    ELSE IF meta.squash /\ ~isBlock(val) THEN Err("squash fields must be structs")
    ELSE IF isBlock(val)
         THEN IF meta.squash THEN Ok(SquashInto(block, val.Block[1]))
              ELSE Ok([block EXCEPT !.body = AppendBlock(@, val.Block[1])])
    ELSE IF isBlockList(val)
         THEN Ok([block EXCEPT !.body = AppendBlocks(@, val.BlockList[1])])
    ELSE IF isValue(val)
         THEN Ok([block EXCEPT !.body = SetAttributeValue(@, meta.name, val.Value[1])])
    ELSE IF isTokens(val)
         THEN Ok([block EXCEPT !.body = SetAttributeRaw(@, meta.name, val.Tokens[1])])
    ELSE Err("unknown value type")

RECURSIVE encodeField(_, _), encodeList(_, _), encodeBlockList(_, _),
          encodeBlocks(_, _, _, _), encodeStruct(_, _), encodeFields(_, _, _)

\* a buggy encodeField: a value of an unsupported kind is left out
encodeFieldSkipping(v, meta) ==
    LET d == deref(v)
        in1 == d.val
    IN IF d.isNil THEN OkNil
       ELSE CASE in1.k \in {"bool", "float64", "string", "int"} -> encodePrimitive(in1, meta)
              [] in1.k = "slice" -> encodeList(in1, meta)
              [] in1.k = "map" -> encodePrimitive(in1, meta)
              [] in1.k = "struct" -> encodeStruct(in1, meta)
              [] OTHER -> OkNil

\* encodeField: the node of a value, by its kind
encodeField(v, meta) ==
    LET d == deref(v)
        in1 == d.val
    IN IF d.isNil THEN OkNil
       ELSE CASE in1.k \in {"bool", "float64", "string", "int"} -> encodePrimitive(in1, meta)
              [] in1.k = "slice" -> encodeList(in1, meta)
              [] in1.k = "map" -> encodePrimitive(in1, meta)
              [] in1.k = "struct" -> encodeStruct(in1, meta)
              [] OTHER -> Err("cannot encode kind to HCL")

\* encodeList: a block list or a primitive list, by the element type
encodeList(v, meta) ==
    IF v.et \in {"map", "struct", "interface"} THEN encodeBlockList(v, meta)
    ELSE encodePrimitiveList(v, meta)

\* the loop of encodeBlockList, from element n on; in.Index(n) goes to
\* encodeStruct as it is, and NumField panics on what is not a struct
encodeBlocks(v, meta, n, blocks) ==
    IF n > Len(v.el)
    THEN Ok([EmptyNode EXCEPT !.BlockList = IF blocks = <<>> THEN None ELSE Some(blocks)])
    ELSE LET r == encodeStruct(v.el[n], meta)
         IN CASE r.r \in {"err", "panic"} -> r
              [] r.r = "nil" -> encodeBlocks(v, meta, n + 1, blocks)
              [] OTHER -> encodeBlocks(v, meta, n + 1, Append(blocks, r.v.Block[1]))

\* encodeBlockList
encodeBlockList(v, meta) ==
    IF ~WantsBlocks(meta) THEN encodePrimitiveList(v, meta)
    ELSE encodeBlocks(v, meta, 1, <<>>)

\* the loop of encodeStruct, from field n on
encodeFields(v, n, block) ==
    IF n > Len(v.fields) THEN Ok([EmptyNode EXCEPT !.Block = Some(block)])
    ELSE LET f == v.fields[n]
             meta == extractFieldMeta(f)
         IN IF SkipsField(meta, f.val) THEN encodeFields(v, n + 1, block)
            ELSE LET r == encodeField(f.val, meta)
                 IN CASE r.r \in {"err", "panic"} -> r
                      [] r.r = "nil" -> encodeFields(v, n + 1, block)
                      [] OTHER ->
                            LET placed == PlaceNode(block, meta, r.v)
                            IN IF placed.r # "ok" THEN placed
                               ELSE encodeFields(v, n + 1, placed.v)

\* encodeStruct: a struct as a block
encodeStruct(v, parentMeta) ==
    IF v.k # "struct" THEN Panic("reflect: call of reflect.Value.NumField on a non-struct Value")
    ELSE encodeFields(v, 1, NewBlock(parentMeta.name))

\* encode
encode(v) == encodeField(v, ZeroMeta)

\* addRootBlock: a root block without a type is squashed into the file body
addRootBlock(block, body) ==
    IF block.type = "" THEN SquashBlock(block, body) ELSE AppendBlock(body, block)

\* a buggy Encode: a root node that is no block gives an empty document
EncodeLenient(v) ==
    LET r == encode(v)
    IN CASE r.r = "err" -> [kind |-> "err", err |-> r.err]
         [] r.r = "panic" -> [kind |-> "panic", what |-> r.what]
         [] r.r = "nil" -> [kind |-> "panic", what |-> "nil pointer dereference"]
         [] isBlock(r.v) ->
                [kind |-> "ok", bytes |-> BuildTokens(addRootBlock(r.v.Block[1], <<>>))]
         [] isBlockList(r.v) ->
                [kind |-> "ok", bytes |-> BuildTokens(AppendBlocks(<<>>, r.v.BlockList[1]))]
         [] OTHER -> [kind |-> "ok", bytes |-> <<>>]

\* Encode: the bytes of the document (the tokens the formatter prints), an
\* error, or a panic; node.isBlock() dereferences the nil node encode
\* returns for a nil value
Encode(v) ==
    LET r == encode(v)
    IN CASE r.r = "err" -> [kind |-> "err", err |-> r.err]
         [] r.r = "panic" -> [kind |-> "panic", what |-> r.what]
         [] r.r = "nil" -> [kind |-> "panic", what |-> "nil pointer dereference"]
         [] isBlock(r.v) ->
                [kind |-> "ok", bytes |-> BuildTokens(addRootBlock(r.v.Block[1], <<>>))]
         [] isBlockList(r.v) ->
                [kind |-> "ok", bytes |-> BuildTokens(AppendBlocks(<<>>, r.v.BlockList[1]))]
         [] OTHER -> [kind |-> "err",
                      err |-> "invalid root type - needs to be a block or block list"]

(***************************************************************************)
(* The inputs of Encode.                                                   *)
(***************************************************************************)
StrVal(runes) == [k |-> "string", sv |-> runes]
IntVal(n) == [k |-> "int", iv |-> n]
BoolVal(b) == [k |-> "bool", bv |-> b]
FloatVal(n) == [k |-> "float64", fv |-> n]
Chan == [k |-> "chan"]
Invalid == [k |-> "invalid"]
NilPtr == [k |-> "ptr", nil |-> TRUE]
PtrTo(v) == [k |-> "ptr", nil |-> FALSE, elem |-> v]
NilIface == [k |-> "interface", nil |-> TRUE]
IfaceOf(v) == [k |-> "interface", nil |-> FALSE, elem |-> v]
Slice(et, el) == [k |-> "slice", nil |-> FALSE, et |-> et, el |-> el]
NilSlice(et) == [k |-> "slice", nil |-> TRUE, et |-> et, el |-> <<>>]
Map(kt, ent) == [k |-> "map", nil |-> FALSE, kt |-> kt, ent |-> ent]
NilMap(kt) == [k |-> "map", nil |-> TRUE, kt |-> kt, ent |-> <<>>]
Struct(fields) == [k |-> "struct", fields |-> fields]

\* a named field and an embedded (anonymous) field
Fld(name, hcl, hcle, val) ==
    [name |-> name, anonymous |-> FALSE, tname |-> "", hcl |-> hcl, hcle |-> hcle,
     val |-> val]
Emb(tname, hcl, hcle, val) ==
    [name |-> tname, anonymous |-> TRUE, tname |-> tname, hcl |-> hcl, hcle |-> hcle,
     val |-> val]

NoTag == <<"">>
StrX == StrVal(<<120>>)
StrY == StrVal(<<121>>)
StrK1 == StrVal(<<107, 49>>)
StrK2 == StrVal(<<107, 50>>)
StrInnerKey == StrVal(<<105, 107>>)

\* records that are nested, squashed and listed
RecPlain == Struct(<<Fld("A", NoTag, NoTag, StrX)>>)
RecKeyed ==
    Struct(<<Fld("K", <<"", "key">>, NoTag, StrInnerKey), Fld("B", NoTag, NoTag, StrY)>>)
RecBad == Struct(<<Fld("C", NoTag, NoTag, Chan)>>)

\* the fields the enumerated records are made of
CoreFields ==
    {Fld("A", NoTag, NoTag, StrX),
     Fld("A2", <<"A">>, NoTag, StrVal(<<QUOTE>>)),
     Fld("K", <<"", "key">>, NoTag, StrK1),
     Fld("K2", <<"", "key">>, NoTag, StrK2),
     Fld("N", <<"", "key">>, NoTag, IntVal(1)),
     Fld("KO", <<"", "key">>, <<"omit">>, StrK1),
     Emb("T", <<"", "squash">>, NoTag, RecKeyed),
     Fld("S", NoTag, NoTag, RecKeyed),
     Fld("SQ", <<"", "squash">>, NoTag, StrX),
     Fld("O", NoTag, <<"omit">>, Chan),
     Fld("E", NoTag, <<"omitempty">>, StrVal(<<>>)),
     Fld("U", <<"", "unusedKeys">>, NoTag, Chan),
     Fld("D", <<"", "decodedFields">>, NoTag, Slice("string", <<StrX>>)),
     Fld("C", NoTag, NoTag, Chan),
     Fld("P", NoTag, NoTag, NilPtr),
     Fld("X", <<"", "expr">>, NoTag, StrVal(<<Sample.letter>>))}

RECURSIVE SeqsUpTo(_, _)
\* the sequences of at most n members of S
SeqsUpTo(S, n) ==
    IF n = 0 THEN {<<>>}
    ELSE LET shorter == SeqsUpTo(S, n - 1)
         IN shorter \cup {Append(w, x) : w \in {y \in shorter : Len(y) = n - 1}, x \in S}

\* records of at most MaxFields core fields; the fields of a Go struct have
\* different names
CoreRecords ==
    {Struct(fs) : fs \in {w \in SeqsUpTo(CoreFields, MaxFields) :
                            \A m, n \in 1..Len(w) : m # n => w[m].name # w[n].name}}

\* records with a field that holds a slice of records or of pointers to
\* records, flagged blocks or not, between other fields
ListRecords ==
    {Struct(pre \o <<Fld("L", tags, NoTag, Slice("struct", el))>> \o post) :
        pre \in {<<>>, <<Fld("A", NoTag, NoTag, StrX)>>,
                  <<Fld("L0", <<"list">>, NoTag, Slice("struct", <<RecKeyed>>))>>},
        post \in {<<>>, <<Fld("B", NoTag, NoTag, IntVal(1))>>},
        tags \in {NoTag, <<"item">>, <<"item", "blocks">>},
        el \in SeqsUpTo({RecPlain, RecKeyed, RecBad}, MaxElems)
                \cup {<<PtrTo(RecPlain)>>, <<NilPtr, PtrTo(RecPlain)>>}}

\* the value a key has in the enumerated maps
MapValue(key) == IF key \in {"a", "ab"} THEN StrX ELSE IntVal(1)

\* the entry sequences of the maps: every order of every set of at most
\* MaxKeys keys
MapEntries ==
    {[n \in 1..Len(ks) |-> [key |-> ks[n], val |-> MapValue(ks[n])]] :
        ks \in {w \in SeqsUpTo({"a", "b", "B", "ab"}, MaxKeys) :
                    \A m, n \in 1..Len(w) : m # n => w[m] # w[n]}}

\* records with a field that holds a map
MapRecords ==
    {Struct(<<Fld("A", NoTag, NoTag, StrX), Fld("M", NoTag, NoTag, Map("string", ent))>>) :
        ent \in MapEntries}

\* roots that are no record
OtherRoots ==
    {StrX, StrVal(<<NL>>), IntVal(1), IntVal(0), BoolVal(TRUE), FloatVal(1), Chan, Invalid,
     NilPtr, PtrTo(RecKeyed), PtrTo(PtrTo(RecPlain)), NilIface, IfaceOf(RecPlain),
     IfaceOf(IntVal(1)), NilSlice("string"), NilMap("string"),
     Slice("string", <<>>), Slice("string", <<StrX, StrY>>), Slice("int", <<IntVal(1)>>),
     Slice("struct", <<RecPlain>>), Slice("chan", <<Chan>>),
     Map("int", <<>>), Map("string", <<[key |-> "a", val |-> Chan]>>)}
        \cup {Map("string", ent) : ent \in MapEntries}

\* a record whose squash field is no record, and records that hold it
RecDeepBad == Struct(<<Fld("S", NoTag, NoTag, RecBad)>>)

\* fields of the kinds and flags the core fields do not have: unsupported
\* kinds along every path, absent and empty values, expressions, sequences
\* of pointers, interfaces and maps, squash fields that are no record
ExtraFields ==
    {Fld("SB", NoTag, NoTag, RecBad),
     Fld("SS", NoTag, NoTag, RecDeepBad),
     Fld("PC", NoTag, NoTag, PtrTo(Chan)),
     Fld("LC", NoTag, NoTag, Slice("chan", <<Chan>>)),
     Fld("MC", NoTag, NoTag, Map("string", <<[key |-> "a", val |-> Chan]>>)),
     Fld("MS", NoTag, NoTag, Map("string", <<[key |-> "a", val |-> RecBad]>>)),
     Fld("KC", <<"", "key">>, NoTag, Chan),
     Emb("TB", <<"", "squash">>, NoTag, RecBad),
     Fld("NI", NoTag, NoTag, NilIface),
     Fld("NS", NoTag, NoTag, NilSlice("string")),
     Fld("NM", NoTag, NoTag, NilMap("string")),
     Fld("PP", NoTag, NoTag, PtrTo(NilPtr)),
     Fld("IP", NoTag, NoTag, IfaceOf(NilPtr)),
     Fld("NK", <<"", "key">>, NoTag, NilPtr),
     Fld("NQ", <<"", "squash">>, NoTag, NilPtr),
     Fld("NB", <<"", "blocks">>, NoTag, NilSlice("struct")),
     Fld("NX", <<"", "expr">>, NoTag, NilPtr),
     Fld("ES", NoTag, NoTag, Slice("string", <<>>)),
     Fld("EI", <<"ei">>, NoTag, Slice("int", <<>>)),
     Fld("PS", NoTag, NoTag, PtrTo(StrX)),
     Fld("XQ", <<"", "expr">>, NoTag, StrVal(<<QUOTE, NL, QUOTE>>)),
     Fld("XT", <<"", "expr">>, NoTag, StrVal(<<Sample.letter, NL, BACKSLASH>>)),
     Fld("XB", <<"", "expr">>, NoTag, StrVal(<<Backtick>>)),
     Fld("XL", <<"", "expr">>, NoTag, Slice("string", <<StrX, StrVal(<<QUOTE, QUOTE>>)>>)),
     Fld("XM", <<"", "expr">>, NoTag, Map("string", <<[key |-> "a", val |-> StrVal(<<NL>>)]>>)),
     Fld("XP", <<"", "expr">>, NoTag, PtrTo(StrY)),
     Fld("QS", NoTag, NoTag, StrVal(<<QUOTE, NL, BACKSLASH>>)),
     Fld("QT", NoTag, NoTag, StrVal(<<DOLLAR, OBRACE, NL, CBRACE, NL>>)),
     Fld("QL", NoTag, NoTag, Slice("string", <<StrX, StrVal(<<NL>>)>>)),
     Fld("QM", NoTag, NoTag, Map("string", <<[key |-> "a", val |-> StrVal(<<QUOTE>>)]>>)),
     Fld("QB", NoTag, NoTag, StrVal(<<Backtick>>)),
     Fld("LP", <<"lp", "blocks">>, NoTag, Slice("struct", <<PtrTo(RecPlain), PtrTo(RecKeyed)>>)),
     Fld("LN", <<"ln", "blocks">>, NoTag, Slice("struct", <<RecPlain, NilPtr>>)),
     Fld("LI", <<"li", "blocks">>, NoTag, Slice("interface", <<IfaceOf(RecPlain)>>)),
     Fld("LM", <<"lm", "blocks">>, NoTag,
         Slice("map", <<Map("string", <<[key |-> "a", val |-> StrX]>>)>>)),
     Fld("LQ", <<"lq", "blocks">>, NoTag, Slice("struct", <<PtrTo(RecBad)>>)),
     Fld("LE", <<"le", "blocks">>, NoTag, Slice("struct", <<>>)),
     Fld("SI", <<"", "squash">>, NoTag, IntVal(1)),
     Fld("SM", <<"", "squash">>, NoTag, Map("string", <<[key |-> "a", val |-> StrX]>>)),
     Fld("SL", <<"", "squash">>, NoTag, Slice("string", <<StrX>>)),
     Fld("SR", <<"", "squash">>, NoTag, Slice("struct", <<RecPlain>>)),
     Fld("SK", <<"", "squash", "blocks">>, NoTag, Slice("struct", <<RecPlain>>)),
     Fld("SE", <<"", "squash", "blocks">>, NoTag, Slice("struct", <<>>)),
     Fld("SP", <<"", "squash">>, NoTag, PtrTo(RecKeyed)),
     Fld("SC", <<"", "squash">>, NoTag, Map("int", <<>>))}

\* records with one of these fields between other fields
ExtraRecords ==
    {Struct(pre \o <<f>> \o post) :
        f \in ExtraFields,
        pre \in {<<>>, <<Fld("A", NoTag, NoTag, StrX)>>,
                 <<Fld("K", <<"", "key">>, NoTag, StrK1)>>},
        post \in {<<>>, <<Fld("B", NoTag, NoTag, IntVal(1))>>,
                  <<Fld("SQ", <<"", "squash">>, NoTag, StrX)>>}}

\* the tokens of the tags: the flags of both tags, a name, the empty token,
\* and tokens that are no flag (another case, a leading space, another word)
TagTokens ==
    {"", "n", "key", "squash", "blocks", "expr", "unusedKeys", "decodedFields",
     "omit", "omitempty", "Key", " key", "bogus"}

\* strings.Split(f.Tag.Get("hcl"), ","): one or two tokens, or a first token and two
\* flags of either tag
HclTags ==
    {<<a>> : a \in TagTokens} \cup {<<a, b>> : a, b \in TagTokens}
        \cup {<<c, a, b>> : c \in {"", "n"}, a, b \in {"key", "expr", "omit", "omitempty", "Key"}}

\* strings.Split(f.Tag.Get("hcle"), ","): one or two tokens
HcleTags ==
    {<<a>> : a \in {"", "omit", "omitempty", "key", "expr", "Omit", "bogus"}}
        \cup {<<a, b>> : a, b \in {"", "omit", "omitempty", "key", "bogus"}}

\* records of one string field, named or embedded, with these tags
TagRecords ==
    {Struct(<<[anonymous |-> an, name |-> "F", hcl |-> h, hcle |-> e,
               tname |-> IF an THEN "T" ELSE "", val |-> StrX]>>) :
        an \in BOOLEAN, h \in HclTags, e \in HcleTags}

\* the tags of a field that is kept out of the output by a flag, and of a
\* field with no flag
FlagTags ==
    {<<NoTag, <<"omit">>>>, <<<<"", "unusedKeys">>, NoTag>>,
     <<<<"", "decodedFields">>, NoTag>>, <<NoTag, NoTag>>}

\* records with a field O of these tags, before or after a field A
FlaggedRecs ==
    {Struct(<<Fld("A", NoTag, NoTag, StrX), Fld("O", tg[1], tg[2], StrY)>>) : tg \in FlagTags}
        \cup {Struct(<<Fld("O", tg[1], tg[2], StrY), Fld("A", NoTag, NoTag, StrX)>>) :
                tg \in FlagTags}

\* records that hold such a record as a nested block, in a sequence that is
\* a list literal or a block list, in a map, or under a pointer
InlineRecords ==
    {Struct(<<f>> \o post) :
        post \in {<<>>, <<Fld("B", NoTag, NoTag, IntVal(1))>>},
        f \in UNION {{Fld("S", NoTag, NoTag, rec),
                      Fld("PR", <<"pr">>, NoTag, PtrTo(rec)),
                      Fld("L", <<"l">>, NoTag, Slice("struct", <<rec>>)),
                      Fld("LR", <<"lr">>, NoTag, Slice("struct", <<PtrTo(rec)>>)),
                      Fld("LB", <<"lb", "blocks">>, NoTag, Slice("struct", <<rec>>)),
                      Fld("M", <<"m">>, NoTag, Map("string", <<[key |-> "a", val |-> rec]>>))} :
                    rec \in FlaggedRecs}}

\* records with a field that holds a sequence of pointers to strings or to
\* records, some of them nil, between other fields
PointerLists ==
    {Struct(pre \o <<Fld("L", <<"l">>, NoTag, sl)>> \o post) :
        pre \in {<<>>, <<Fld("A", NoTag, NoTag, StrX)>>},
        post \in {<<>>, <<Fld("B", NoTag, NoTag, IntVal(1))>>},
        sl \in {Slice("string", el) : el \in SeqsUpTo({NilPtr, PtrTo(StrX), PtrTo(StrY)}, MaxElems)}
                \cup {Slice("struct", el) :
                        el \in SeqsUpTo({NilPtr, PtrTo(RecPlain), PtrTo(RecKeyed)}, MaxElems)}}

EncInputs ==
    CoreRecords \cup ListRecords \cup MapRecords \cup ExtraRecords \cup TagRecords
        \cup InlineRecords \cup PointerLists \cup OtherRoots

(***************************************************************************)
(* Encode as a state machine: Spec.                                        *)
(***************************************************************************)
Init ==
    /\ in \in EncInputs
    /\ node = NoResult
    /\ out = NoResult
    /\ pc = "start"
    /\ EscIdle

\* a call of Encode, from its entry to its return (or panic)
EncodeCall ==
    /\ pc = "start"
    /\ node' = encode(in)
    /\ out' = Encode(in)
    /\ pc' = "done"
    /\ UNCHANGED <<in, s, i, stack, escapeNext, result, epc>>

Next == EncodeCall

Spec == Init /\ [][Next]_vars

(***************************************************************************)
(* Properties of the escaper, checked under SpecEscape.                    *)
(***************************************************************************)
\* the per-character escape as the specification tabulates it, for the
\* runes of Sigma
PerCharEscape(c) ==
    CASE c = NL -> <<92, 110>>
      [] c = CR -> <<92, 114>>
      [] c = TAB -> <<92, 116>>
      [] c = BACKSLASH -> <<92, 92>>
      [] c = QUOTE -> <<92, 34>>
      [] c = Sample.ctrl -> <<92, 117, 48, 48, 48, 49>>
      [] c = Sample.langtag -> <<92, 117, 48, 48, 48, 101, 48, 48, 48, 49>>
      [] OTHER -> <<c>>

RECURSIVE EscapeEach(_)
\* the concatenation, in order, of the per-character escapes
EscapeEach(str) ==
    IF str = <<>> THEN <<>> ELSE PerCharEscape(Head(str)) \o EscapeEach(Tail(str))

\* a '$' immediately followed by '{'
HasTemplatePair(str) ==
    \E j \in 1..(Len(str) - 1) : str[j] = DOLLAR /\ str[j + 1] = OBRACE

\* C7: for every input that contains no "${" pair, EscapeString returns the
\* concatenation, in order, of the per-character escapes (\n, \r, \t, \\,
\* \", \uXXXX or \uXXXXXXXX for a non-printable rune, anything else
\* unchanged).
C7_PlainTextEscapedPerCharacter ==
    (epc = "done" /\ ~HasTemplatePair(s)) => result = EscapeEach(s)

\* a finished run on a string that has a quote, a control character and a
\* printable non-ASCII letter
C7_Witness ==
    /\ epc = "done"
    /\ s = <<QUOTE, Sample.ctrl, Sample.eacute>>
    /\ result = <<92, 34, 92, 117, 48, 48, 48, 49, 233>>

\* the start of a template expression in plain text: a '$' immediately
\* followed by '{' and not immediately preceded by '$'
TemplateStart(str, j) ==
    /\ str[j] = DOLLAR
    /\ j < Len(str) /\ str[j + 1] = OBRACE
    /\ (j > 1 => str[j - 1] # DOLLAR)

RECURSIVE ExprEnd(_, _, _), StrEnd(_, _)
\* the index of the '}' that closes the expression whose body starts at j:
\* braces nest, and a brace inside a quoted string does not count; Len(str)
\* when the expression is never closed
ExprEnd(str, j, depth) ==
    IF j > Len(str) THEN Len(str)
    ELSE CASE str[j] = CBRACE ->
                IF depth = 0 THEN j ELSE ExprEnd(str, j + 1, depth - 1)
           [] str[j] = OBRACE -> ExprEnd(str, j + 1, depth + 1)
           [] str[j] = QUOTE -> ExprEnd(str, StrEnd(str, j + 1) + 1, depth)
           [] OTHER -> ExprEnd(str, j + 1, depth)

\* the index of the quote that closes the string literal whose content
\* starts at j: a backslash escapes the character after it, and a template
\* inside the literal is skipped as a whole
StrEnd(str, j) ==
    IF j > Len(str) THEN Len(str)
    ELSE CASE str[j] = BACKSLASH -> StrEnd(str, j + 2)
           [] str[j] = QUOTE -> j
           [] str[j] = DOLLAR /\ j < Len(str) /\ str[j + 1] = OBRACE ->
                StrEnd(str, ExprEnd(str, j + 2, 0) + 1)
           [] OTHER -> StrEnd(str, j + 1)

RECURSIVE EscapeOutsideTemplates(_, _)
\* plain text escaped per character, every template expression (from its
\* "${" through its closing '}') copied
EscapeOutsideTemplates(str, j) ==
    IF j > Len(str) THEN <<>>
    ELSE IF TemplateStart(str, j)
         THEN LET e == ExprEnd(str, j + 2, 0)
              IN SubSeq(str, j, e) \o EscapeOutsideTemplates(str, e + 1)
         ELSE PerCharEscape(str[j]) \o EscapeOutsideTemplates(str, j + 1)

\* C8: EscapeString copies every character of a template expression, from
\* its "${" through the '}' that closes it, and escapes the plain text
\* before and after the expression per character.
C8_TemplateCopiedRestEscaped ==
    epc = "done" => result = EscapeOutsideTemplates(s, 1)

\* a character of the content of a nested literal: not the quote, the
\* backslash or the '$' that are the literal's own syntax
LiteralContent(c) == c \notin {QUOTE, BACKSLASH, DOLLAR}

\* C9 as stated: inside an interpolation region the characters of a nested
\* quoted-string literal are escaped with the per-character rules of plain
\* text, and the expression characters outside it are copied.
C9_NestedLiteralEscaped ==
    [][(epc = "run" /\ i <= Len(s)) =>
        /\ (stack[Len(stack)] = "\"" /\ LiteralContent(s[i]))
              => result' = result \o PerCharEscape(s[i])
        /\ stack[Len(stack)] = "${" => result' = Append(result, s[i])]_vars

\* C9 as amended: inside an interpolation region every character is copied
\* unchanged, the characters of a nested quoted-string literal (a raw
\* newline included) as well as the expression characters outside it.
C9_NestedLiteralCopied ==
    [][(epc = "run" /\ i <= Len(s) /\ stack[Len(stack)] \in {"\"", "${"})
        => result' = Append(result, s[i])]_vars

\* a finished run on ${"<newline>"}: the newline of the nested literal is
\* in the output as it was in the input
C9_Witness ==
    /\ epc = "done"
    /\ s = <<DOLLAR, OBRACE, QUOTE, NL, QUOTE, CBRACE>>
    /\ result = s

(***************************************************************************)
(* Properties of the tree encoder and of Encode, checked under Spec.       *)
(***************************************************************************)
Done == pc = "done"
RootIsRecord == in.k = "struct"
RootBlock == node.v.Block[1]
Encoded == Done /\ RootIsRecord /\ node.r = "ok"
FieldCount == IF RootIsRecord THEN Len(in.fields) ELSE 0
InvalidRootError == "invalid root type - needs to be a block or block list"

\* the value of a field under its pointers and interfaces
Under(f) == deref(f.val).val
Present(f) == ~deref(f.val).isNil

\* the block of a record encoded on its own
BlockOf(rec) == encode(rec).v.Block[1]

\* the record made of the first n fields of the root record
Prefix(n) == Struct(SubSeq(in.fields, 1, n))

\* C1: a record that has a field flagged key whose present value is not a
\* string fails to encode: Encode returns an error and no output, and no
\* label is made from the value.
C1_NonStringKeyFails ==
    (Done /\ RootIsRecord
        /\ \E n \in 1..FieldCount :
              LET f == in.fields[n]
                  meta == extractFieldMeta(f)
              IN meta.key /\ ~SkipsField(meta, f.val) /\ Present(f)
                    /\ Under(f).k # "string")
    => out.kind = "err"

RECURSIVE StringKeyValues(_)
\* the values of the string fields flagged key, in declaration order
StringKeyValues(fields) ==
    IF fields = <<>> THEN <<>>
    ELSE LET f == Head(fields)
         IN (IF extractFieldMeta(f).key /\ f.val.k = "string" THEN <<f.val.sv>> ELSE <<>>)
                \o StringKeyValues(Tail(fields))

RECURSIVE KeysAreStrings(_)
\* every field flagged key, of the record and of the records squashed into
\* it, holds a string
KeysAreStrings(rec) ==
    \A n \in 1..Len(rec.fields) :
        LET f == rec.fields[n]
            meta == extractFieldMeta(f)
        IN /\ meta.key => f.val.k = "string"
           /\ (meta.squash /\ ~meta.key /\ Present(f) /\ Under(f).k = "struct")
                => KeysAreStrings(Under(f))

\* no field flagged key is an attribute of the body: every attribute has the
\* name of a field that is not flagged key
NoKeyAttribute ==
    \A m \in 1..Len(RootBlock.body) :
        RootBlock.body[m].it = "attr" =>
            \E n \in 1..FieldCount :
                LET meta == extractFieldMeta(in.fields[n])
                IN ~meta.key /\ meta.name = RootBlock.body[m].name

\* C2 as stated: the block of a record with k string fields flagged key
\* carries exactly those k values as labels, in declaration order, and none
\* of the key fields is an attribute of the body.
C2_LabelsAreTheKeyFields ==
    (Encoded /\ KeysAreStrings(in)) =>
        /\ RootBlock.labels = StringKeyValues(in.fields)
        /\ NoKeyAttribute

RECURSIVE LabelsInOrder(_), FieldLabels(_)
\* what a field adds to the labels: a key field that is not omitted its
\* value, a squashed record its own labels, any other field nothing
FieldLabels(f) ==
    LET meta == extractFieldMeta(f)
        omitted == \/ meta.omit \/ meta.unusedKeys \/ meta.decodedFields
                   \/ meta.omitEmpty /\ IsZero(f.val)
    IN IF omitted \/ ~Present(f) THEN <<>>
       ELSE IF meta.key THEN <<Under(f).sv>>
       ELSE IF meta.squash /\ Under(f).k = "struct" THEN LabelsInOrder(Under(f).fields)
       ELSE <<>>

LabelsInOrder(fields) ==
    IF fields = <<>> THEN <<>> ELSE FieldLabels(Head(fields)) \o LabelsInOrder(Tail(fields))

\* C2 as amended: the labels of the block of a record whose key fields all
\* hold strings are, in declaration order, the values of the key fields that
\* are present and not omitted, with the labels of every squashed record at
\* the place of its field; no key field is an attribute of the body.
C2_LabelsInDeclarationOrder ==
    (Encoded /\ KeysAreStrings(in)) =>
        /\ RootBlock.labels = LabelsInOrder(in.fields)
        /\ NoKeyAttribute

\* a record with a key field, a squashed record that has a key field, and a
\* second key field: three labels in declaration order
C2_Witness ==
    /\ Encoded
    /\ in.fields = <<Fld("K", <<"", "key">>, NoTag, StrK1),
                     Emb("T", <<"", "squash">>, NoTag, RecKeyed),
                     Fld("K2", <<"", "key">>, NoTag, StrK2)>>
    /\ RootBlock.labels = <<StrK1.sv, StrInnerKey.sv, StrK2.sv>>

\* field n of the root record is a squashed record
SquashedRecord(n) ==
    LET f == in.fields[n]
        meta == extractFieldMeta(f)
    IN /\ meta.squash /\ ~meta.key /\ ~SkipsField(meta, f.val)
       /\ Present(f) /\ Under(f).k = "struct"

\* C3: a record field flagged squash puts the attributes and blocks of its
\* record into the parent's body at the place of the field, as they are and
\* with no nested block around them, and appends the labels of the squashed
\* record, in order, to the labels the parent has when the field is reached.
C3_SquashSplicesBodyAndLabels ==
    Encoded =>
        \A n \in 1..FieldCount :
            SquashedRecord(n) =>
                LET before == BlockOf(Prefix(n - 1))
                    after == BlockOf(Prefix(n))
                    inner == BlockOf(Under(in.fields[n]))
                    at == Len(before.body) + 1
                IN /\ Len(after.body) = at
                   /\ after.body[at].it = "tokens"
                   /\ RootBlock.body[at] = after.body[at]
                   /\ BuildTokens(after.body)
                        = BuildTokens(before.body) \o BuildTokens(inner.body)
                   /\ after.labels = before.labels \o inner.labels
                   /\ SubSeq(RootBlock.labels, 1, Len(after.labels)) = after.labels

\* an attribute, a squashed record with a label and an attribute, and a key:
\* the squashed attribute is the second entry of the body, not a block
C3_Witness ==
    /\ Encoded
    /\ in.fields = <<Fld("A", NoTag, NoTag, StrX),
                     Emb("T", <<"", "squash">>, NoTag, RecKeyed),
                     Fld("K2", <<"", "key">>, NoTag, StrK2)>>
    /\ RootBlock.labels = <<StrInnerKey.sv, StrK2.sv>>
    /\ Len(RootBlock.body) = 2
    /\ RootBlock.body[2].it = "tokens"
    /\ RootBlock.body[2].tokens[1] = [t |-> "ident", name |-> "B"]
    /\ out.kind = "ok"

\* field n of the root record holds a non-empty sequence of records and has
\* no flag but, possibly, blocks
ListOfRecords(n) ==
    LET f == in.fields[n]
        meta == extractFieldMeta(f)
    IN /\ ~meta.key /\ ~meta.squash /\ ~meta.expression /\ ~SkipsField(meta, f.val)
       /\ f.val.k = "slice" /\ ~f.val.nil /\ f.val.et = "struct"
       /\ Len(f.val.el) >= 1
       /\ \A m \in 1..Len(f.val.el) : f.val.el[m].k = "struct"

RECURSIVE JoinWithCommas(_)
JoinWithCommas(literals) ==
    IF literals = <<>> THEN <<>>
    ELSE IF Len(literals) = 1 THEN Head(literals)
    ELSE Head(literals) \o <<tokenComma>> \o JoinWithCommas(Tail(literals))

\* an inline object literal: tokens from { to }
IsObjectLiteral(tkns) ==
    Len(tkns) >= 2 /\ tkns[1] = tokenOCurlyBrace /\ tkns[Len(tkns)] = tokenCCurlyBrace

Attributes(body) == SelectSeq(body, LAMBDA item : item.it = "attr")
Blocks(body) == SelectSeq(body, LAMBDA item : item.it = "block")

OmittedByTag(f) ==
    \/ "omit" \in {f.hcle[m] : m \in 1..Len(f.hcle)}
    \/ "unusedKeys" \in {f.hcl[m] : m \in 2..Len(f.hcl)}
    \/ "decodedFields" \in {f.hcl[m] : m \in 2..Len(f.hcl)}
    \/ /\ "omitempty" \in {f.hcle[m] : m \in 1..Len(f.hcle)}
       /\ f.val \in {StrVal(<<>>), IntVal(0), BoolVal(FALSE), FloatVal(0), Chan,
                     NilPtr, NilIface}

\* C5: a record whose every field is omitted (omit, a debug marker, or
\* omitempty on a zero value) encodes to an empty body: no attribute, no
\* block, no label, whatever the kinds of the omitted values, and no error.
C5_AllOmittedIsEmpty ==
    (Done /\ RootIsRecord /\ \A n \in 1..FieldCount : OmittedByTag(in.fields[n])) =>
        /\ node.r = "ok"
        /\ RootBlock.body = <<>>
        /\ RootBlock.labels = <<>>
        /\ out = [kind |-> "ok", bytes |-> <<>>]

\* a record of an omitted channel, an empty omitempty string and a debug
\* marker that holds a channel
C5_Witness ==
    /\ Done
    /\ in = Struct(<<Fld("O", NoTag, <<"omit">>, Chan),
                     Fld("E", NoTag, <<"omitempty">>, StrVal(<<>>)),
                     Fld("U", <<"", "unusedKeys">>, NoTag, Chan)>>)
    /\ out = [kind |-> "ok", bytes |-> <<>>]

\* the place of a key in ascending lexicographic (byte) order
KeyRank(key) ==
    CASE key = "B" -> 1 [] key = "a" -> 2 [] key = "ab" -> 3 [] key = "b" -> 4

\* the keys of an inline object literal whose values are scalars, in the
\* order of the tokens
KeysOf(tkns) ==
    LET at == SelectSeq([m \in 1..Len(tkns) |-> m],
                        LAMBDA m : m < Len(tkns) /\ tkns[m].t = "quotedlit"
                                    /\ tkns[m + 2] = tokenEqual)
    IN [m \in 1..Len(at) |-> tkns[at[m]].name]

\* a root record has the map field M
MapField == IF RootIsRecord /\ FieldCount >= 2 /\ in.fields[2].val.k = "map"
            THEN in.fields[2].val ELSE NilMap("string")

\* the tokens of the attribute the map field gives
MapTokens ==
    SelectSeq(RootBlock.body,
              LAMBDA item : item.it = "attr"
                            /\ item.name = extractFieldMeta(in.fields[2]).name)[1].tokens

\* the root record with the entries of its map in the order p
Reordered(p) ==
    [in EXCEPT !.fields[2].val.ent = [m \in 1..Len(p) |-> MapField.ent[p[m]]]]

PresentNonRecordRoot ==
    \/ in.k \in {"bool", "int", "float64", "string"}
    \/ in.k \in {"map", "slice"} /\ ~in.nil

\* the attributes and blocks of the root record are the document, with no
\* block around them
RootRecordAtTopLevel ==
    Encoded => out = [kind |-> "ok", bytes |-> BuildTokens(RootBlock.body)]

RECURSIVE HoldsUnsupported(_)
\* the value is of an unsupported kind, or holds one in a field that is not
\* omitted, an element or a map value, under any pointers and interfaces
HoldsUnsupported(v) ==
    CASE v.k = "chan" -> TRUE
      [] v.k \in {"ptr", "interface"} -> ~v.nil /\ HoldsUnsupported(v.elem)
      [] v.k = "slice" -> \E m \in 1..Len(v.el) : HoldsUnsupported(v.el[m])
      [] v.k = "map" -> \E m \in 1..Len(v.ent) : HoldsUnsupported(v.ent[m].val)
      [] v.k = "struct" ->
            \E n \in 1..Len(v.fields) :
                ~OmittedByTag(v.fields[n]) /\ HoldsUnsupported(v.fields[n].val)
      [] OTHER -> FALSE

\* the fields of the root record that hold a value of an unsupported kind
UnsupportedFields ==
    {n \in 1..FieldCount :
        ~OmittedByTag(in.fields[n]) /\ HoldsUnsupported(in.fields[n].val)}

\* the first field of the root record at which the walk fails
FirstFailure == CHOOSE n \in 1..FieldCount :
                    /\ encode(Prefix(n)).r # "ok"
                    /\ \A m \in 1..(n - 1) : encode(Prefix(m)).r = "ok"

\* C11: if a field that is not omitted and that the walk reaches (the walk
\* does not crash before it) holds a value of an unsupported kind, at any
\* depth and along any path, Encode returns an error and no bytes; the
\* first error ends the walk: the result is the one of the record cut after
\* the first failing field, whatever the later fields are.
C11_UnsupportedKindFails ==
    (Done /\ RootIsRecord /\ UnsupportedFields # {} /\ node.r # "panic") =>
        /\ node.r = "err"
        /\ out = [kind |-> "err", err |-> node.err]
        /\ out = Encode(Prefix(FirstFailure))

\* a channel in a nested record, between an attribute and a squash field
\* that would fail with another error
C11_Witness ==
    /\ Done
    /\ in = Struct(<<Fld("A", NoTag, NoTag, StrX),
                     Fld("SS", NoTag, NoTag, RecDeepBad),
                     Fld("SQ", <<"", "squash">>, NoTag, StrX)>>)
    /\ out = [kind |-> "err", err |-> "cannot encode kind to HCL"]

\* the token occurs in the tag at one of the places from
OccursFrom(tag, from, token) == \E m \in from..Len(tag) : tag[m] = token

\* the name and the flags the tags of a field stand for
TagMeaning(f) ==
    [name |-> IF f.hcl[1] # "" THEN f.hcl[1]
              ELSE IF f.anonymous THEN f.tname ELSE f.name,
     key |-> OccursFrom(f.hcl, 2, "key"),
     squash |-> OccursFrom(f.hcl, 2, "squash"),
     blocks |-> OccursFrom(f.hcl, 2, "blocks"),
     expr |-> OccursFrom(f.hcl, 2, "expr"),
     unusedKeys |-> OccursFrom(f.hcl, 2, "unusedKeys"),
     decodedFields |-> OccursFrom(f.hcl, 2, "decodedFields"),
     omit |-> OccursFrom(f.hcle, 1, "omit"),
     omitempty |-> OccursFrom(f.hcle, 1, "omitempty")]

\* what extractFieldMeta returns, under the names of the tags
MetaRead(f) ==
    LET meta == extractFieldMeta(f)
    IN [name |-> meta.name, key |-> meta.key, squash |-> meta.squash,
        blocks |-> meta.repeatBlock, expr |-> meta.expression,
        unusedKeys |-> meta.unusedKeys, decodedFields |-> meta.decodedFields,
        omit |-> meta.omit, omitempty |-> meta.omitEmpty]

\* C12: for every field and tags, extractFieldMeta returns the first token
\* of the hcl tag as the name if it is not empty, else the declared name
\* (the name of the embedded type for an anonymous field); key, squash,
\* blocks, expr, unusedKeys and decodedFields are set exactly when that very
\* token is among the hcl tokens after the first, omit and omitempty exactly
\* when that token is anywhere in the hcle tag; other tokens change nothing
\* and no tag sets a flag of the other.
C12_FieldMetaFromTags ==
    (Done /\ RootIsRecord) =>
        \A n \in 1..FieldCount : MetaRead(in.fields[n]) = TagMeaning(in.fields[n])

\* an embedded field whose hcl tag has flags of the hcle tag and a flag in
\* another case, and whose hcle tag has a flag of the hcl tag: no flag is
\* set, and the field is the attribute T
C12_Witness ==
    /\ Encoded
    /\ FieldCount = 1
    /\ in.fields[1].anonymous
    /\ in.fields[1].hcl = <<"", "omit", "Key">>
    /\ in.fields[1].hcle = <<"key", "bogus">>
    /\ RootBlock.labels = <<>>
    /\ Len(RootBlock.body) = 1
    /\ RootBlock.body[1].it = "attr" /\ RootBlock.body[1].name = "T"

RECURSIVE Absent(_)
\* a nil pointer, interface, slice or map, under any pointers and interfaces
Absent(v) ==
    CASE v.k \in {"ptr", "interface"} -> v.nil \/ Absent(v.elem)
      [] v.k \in {"slice", "map"} -> v.nil
      [] OTHER -> FALSE

\* a sequence of scalars that is not nil and has no element
EmptyScalarSequence(v) ==
    v.k = "slice" /\ ~v.nil /\ v.el = <<>> /\ v.et \in {"string", "int", "bool", "float64"}

\* C13: a field of a record whose value is absent under any pointers and
\* interfaces (a nil pointer, interface, slice or map) adds nothing to the
\* block, no attribute, block or label, and causes no error, with or
\* without omitempty and whatever its flags; a sequence of scalars that is
\* not nil and has no element adds one attribute, the empty list literal.
C13_AbsentAddsNothing ==
    (Done /\ RootIsRecord) =>
        \A n \in 1..FieldCount :
            LET f == in.fields[n]
                meta == extractFieldMeta(f)
                before == encode(Prefix(n - 1))
                after == encode(Prefix(n))
            IN before.r = "ok" =>
                /\ Absent(f.val) => after = before
                /\ (~OmittedByTag(f) /\ ~meta.key /\ ~meta.squash /\ EmptyScalarSequence(f.val))
                    => /\ after.r = "ok"
                       /\ after.v.Block[1].labels = before.v.Block[1].labels
                       /\ after.v.Block[1].body =
                            Append(before.v.Block[1].body,
                                   [it |-> "attr", name |-> meta.name,
                                    tokens |-> <<tokenOBrack, tokenCBrack>>])

\* a pointer to a nil pointer between two attributes: the body is the two
\* attributes
C13_Witness ==
    /\ Encoded
    /\ in.fields = <<Fld("A", NoTag, NoTag, StrX),
                     Fld("PP", NoTag, NoTag, PtrTo(NilPtr)),
                     Fld("B", NoTag, NoTag, IntVal(1))>>
    /\ Len(RootBlock.body) = 2
    /\ RootBlock.body[1].name = "A" /\ RootBlock.body[2].name = "B"
    /\ out.kind = "ok"

RECURSIVE StringsOf(_)
\* the strings of a string, of a sequence of strings or of a map of one
\* string, under any pointers, in the order they are written
StringsOf(v) ==
    CASE v.k = "string" -> <<v.sv>>
      [] v.k \in {"ptr", "interface"} -> IF v.nil THEN <<>> ELSE StringsOf(v.elem)
      [] v.k = "slice" ->
            IF v.el = <<>> THEN <<>>
            ELSE StringsOf(Head(v.el)) \o StringsOf([v EXCEPT !.el = Tail(@)])
      [] v.k = "map" -> IF Len(v.ent) = 1 THEN StringsOf(v.ent[1].val) ELSE <<>>
      [] OTHER -> <<>>

\* field n of the root record holds strings and is an attribute
StringField(n) ==
    LET f == in.fields[n]
        meta == extractFieldMeta(f)
    IN /\ ~OmittedByTag(f) /\ ~meta.key /\ ~meta.squash
       /\ StringsOf(f.val) # <<>>
       /\ Under(f).k = "map" => Len(Under(f).ent) = 1
       /\ Under(f).k = "slice" => Under(f).et = "string"

\* the texts that were lexed for the tokens, in order
LexedTexts(tkns) ==
    LET lexed == SelectSeq(tkns, LAMBDA tk : tk.t = "lexed")
    IN [m \in 1..Len(lexed) |-> lexed[m].src]

\* C14: a string under the expr flag, the value of the field or an element
\* of the sequence or map the field holds, is lexed as it is written, with
\* no quotes around it and no escaping; a string without the flag is the
\* double-quoted literal of EscapeString of the value.
C14_ExprSplicedElseQuoted ==
    (Done /\ RootIsRecord) =>
        \A n \in 1..FieldCount :
            (StringField(n) /\ encode(Prefix(n)).r = "ok") =>
                LET f == in.fields[n]
                    strs == StringsOf(f.val)
                    named == SelectSeq(Attributes(BlockOf(Prefix(n)).body),
                                       LAMBDA item : item.name = extractFieldMeta(f).name)
                IN /\ Len(named) = 1
                   /\ LexedTexts(named[1].tokens) =
                        [m \in 1..Len(strs) |->
                            IF OccursFrom(f.hcl, 2, "expr") THEN strs[m]
                            ELSE <<QUOTE>> \o EscapeString(strs[m]) \o <<QUOTE>>]

\* an expression that is a string literal with a raw newline: it is lexed as
\* it is, the newline is not escaped and no quotes are added
C14_Witness ==
    /\ Encoded
    /\ in.fields = <<Fld("A", NoTag, NoTag, StrX),
                     Fld("XQ", <<"", "expr">>, NoTag, StrVal(<<QUOTE, NL, QUOTE>>))>>
    /\ LexedTexts(RootBlock.body[1].tokens) = <<<<QUOTE, StrX.sv[1], QUOTE>>>>
    /\ LexedTexts(RootBlock.body[2].tokens) = <<<<QUOTE, NL, QUOTE>>>>
    /\ out.kind = "ok"

\* an element of a block sequence: a record or a map, under a pointer or an
\* interface or not, or a nil pointer or interface
BlockElement(e) ==
    \/ e.k \in {"ptr", "interface"} /\ (e.nil \/ deref(e).val.k \in {"struct", "map"})
    \/ e.k = "map"
    \/ e.k = "struct"

\* field n of the root record holds a sequence of one or more such elements
\* and is flagged blocks
BlocksSequence(n) ==
    LET f == in.fields[n]
        meta == extractFieldMeta(f)
    IN /\ OccursFrom(f.hcl, 2, "blocks") /\ ~meta.key /\ ~meta.squash /\ ~OmittedByTag(f)
       /\ f.val.k = "slice" /\ ~f.val.nil /\ Len(f.val.el) >= 1
       /\ \A m \in 1..Len(f.val.el) :
            BlockElement(f.val.el[m]) /\ ~HoldsUnsupported(f.val.el[m])

\* C15: a sequence flagged blocks whose elements are records, pointers to
\* records, interfaces that hold records, or maps is encoded to the end and
\* gives one block per present element, in the order of the elements; nil
\* elements are left out, and give no empty block and no failure.
C15_BlockSequenceOfAnyElements ==
    (Done /\ RootIsRecord) =>
        \A n \in 1..FieldCount :
            (BlocksSequence(n) /\ encode(Prefix(n - 1)).r = "ok") =>
                LET f == in.fields[n]
                    present == SelectSeq(f.val.el, LAMBDA e : ~deref(e).isNil)
                    before == Blocks(BlockOf(Prefix(n - 1)).body)
                    after == Blocks(BlockOf(Prefix(n)).body)
                IN /\ encode(Prefix(n)).r = "ok"
                   /\ Len(after) = Len(before) + Len(present)
                   /\ \A m \in 1..Len(present) :
                        LET made == after[Len(before) + m].block
                            rec == deref(present[m]).val
                        IN /\ made.type = extractFieldMeta(f).name
                           /\ rec.k = "struct" =>
                                /\ made.labels = BlockOf(rec).labels
                                /\ made.body = BlockOf(rec).body

SquashError == "squash fields must be structs"

\* field n of the root record is flagged squash and not key, and its present
\* value is encoded to a node that is no block: the tokens of a scalar, of a
\* map or of a list literal, or the block list of a blocks sequence
SquashedNonBlock(n) ==
    LET f == in.fields[n]
        meta == extractFieldMeta(f)
        r == encodeField(f.val, meta)
    IN /\ OccursFrom(f.hcl, 2, "squash") /\ ~meta.key /\ ~OmittedByTag(f)
       /\ Present(f)
       /\ Under(f).k \in {"bool", "int", "float64", "string", "map", "slice"}
       /\ r.r = "ok" /\ ~isBlock(r.v)

\* C16: a field flagged squash and not key whose present value does not
\* encode to a block (a scalar, a map, a sequence written as a list literal
\* or a blocks sequence) makes encodeStruct fail with the squash error, and
\* nothing of the record is given.
C16_SquashNonBlockFails ==
    (Done /\ RootIsRecord) =>
        \A n \in 1..FieldCount :
            (SquashedNonBlock(n) /\ encode(Prefix(n - 1)).r = "ok") =>
                /\ encode(Prefix(n)) = Err(SquashError)
                /\ node = Err(SquashError)
                /\ out = [kind |-> "err", err |-> SquashError]

\* a blocks sequence of one record, flagged squash, between two attributes
C16_Witness ==
    /\ Done
    /\ in = Struct(<<Fld("A", NoTag, NoTag, StrX),
                     Fld("SK", <<"", "squash", "blocks">>, NoTag,
                         Slice("struct", <<RecPlain>>)),
                     Fld("B", NoTag, NoTag, IntVal(1))>>)
    /\ node = Err(SquashError)
    /\ out = [kind |-> "err", err |-> SquashError]

(***************************************************************************)
(* Properties of the state stack of the escaper, checked under SpecEscape. *)
(***************************************************************************)
InLoop == epc = "run" /\ i <= Len(s)
Popped == Len(stack') < Len(stack)

RECURSIVE BackslashRun(_, _)
\* the number of backslashes in a row that end at position j
BackslashRun(str, j) ==
    IF j >= 1 /\ str[j] = BACKSLASH THEN 1 + BackslashRun(str, j - 1) ELSE 0

\* C17: in the quoted state a double quote pops the state exactly when it is
\* not escaped, that is when the run of backslashes before it has even
\* length (zero included): a backslash escapes only the character after it.
C17_QuotePopsUnlessEscaped ==
    [][(InLoop /\ stack[Len(stack)] = "\"" /\ s[i] = QUOTE)
        => (Popped <=> BackslashRun(s, i - 1) % 2 = 0)]_vars

\* the place of the first "${" of the string, 0 if there is none
FirstTemplate(str) ==
    IF \E j \in 1..Len(str) : TemplateStart(str, j)
    THEN CHOOSE j \in 1..Len(str) :
            TemplateStart(str, j) /\ \A m \in 1..(j - 1) : ~TemplateStart(str, m)
    ELSE 0

\* the braces opened and not yet closed in the first expression, before
\* position j, when no quoted string starts before j; 0 otherwise
OpenBraces(str, j) ==
    LET t == FirstTemplate(str)
        inside == (t + 2)..(j - 1)
    IN IF t = 0 \/ j < t + 2 \/ \E m \in inside : str[m] = QUOTE THEN 0
       ELSE Cardinality({m \in inside : str[m] = OBRACE})
                - Cardinality({m \in inside : str[m] = CBRACE})

\* C18: in the expr state a '}' that closes a brace opened inside the
\* expression, outside any quoted string, does not pop the state: the
\* region goes on to the '}' that matches its "${".
C18_InnerBraceDoesNotPop ==
    [][(InLoop /\ stack[Len(stack)] = "${" /\ s[i] = CBRACE /\ OpenBraces(s, i) > 0)
        => ~Popped]_vars

\* the stack is not empty, its bottom is the plain state, an expr entry is
\* above every plain or quoted entry that has an entry above it, and a
\* quoted entry above every such expr entry
StackShape ==
    /\ stack # <<>>
    /\ stack[1] = ""
    /\ \A m \in 2..Len(stack) :
        /\ stack[m - 1] \in {"", "\""} => stack[m] = "${"
        /\ stack[m - 1] = "${" => stack[m] = "\""

DepthStep ==
    Len(stack') \in {Len(stack) - 1, Len(stack), Len(stack) + 1}

\* C19: at every step of EscapeString, for every input, the stack is not
\* empty, its bottom is the plain state, the entry above a plain or quoted
\* entry is an expr entry and the entry above an expr entry is a quoted
\* entry, and the depth changes by at most one per character; so the top is
\* always one of the three states of the switch, and EscapeString ends with
\* a result for every input, balanced or not.
C19_StackShapeAndTermination ==
    /\ []StackShape
    /\ [][DepthStep]_vars
    /\ <>(epc = "done")

\* a run that ends inside the nested literal of an expression that is never
\* closed: three entries on the stack, and a result
C19_Witness ==
    /\ epc = "done"
    /\ stack = <<"", "${", "\"">>
    /\ Len(result) >= 3

(***************************************************************************)
(* Properties of the nodes of the tree encoder, checked under Spec.        *)
(***************************************************************************)
\* the number of variants of a node that are populated
Populated(n) ==
    Cardinality({v \in {"Block", "BlockList", "Value", "Tokens"} : n[v] # None})

\* field n of the root record is flagged blocks and holds a sequence of
\* records that is not nil and has no element
EmptyBlocksSequence(n) ==
    LET f == in.fields[n]
        meta == extractFieldMeta(f)
    IN /\ OccursFrom(f.hcl, 2, "blocks") /\ ~meta.key /\ ~meta.squash /\ ~OmittedByTag(f)
       /\ f.val.k = "slice" /\ ~f.val.nil /\ f.val.et = "struct" /\ f.val.el = <<>>

\* C20: every node encodeField returns has exactly one populated variant
\* among Block, BlockList, Value and Tokens; a field flagged blocks that
\* holds a sequence of records that is not nil and has no element gives a
\* node the record accepts: the record is encoded without error and the
\* field adds no block.
C20_OneVariantPerNode ==
    (Done /\ RootIsRecord) =>
        /\ node.r = "ok" => Populated(node.v) = 1
        /\ \A n \in 1..FieldCount :
            LET f == in.fields[n]
                r == encodeField(f.val, extractFieldMeta(f))
            IN /\ (~OmittedByTag(f) /\ r.r = "ok") => Populated(r.v) = 1
               /\ (EmptyBlocksSequence(n) /\ encode(Prefix(n - 1)).r = "ok")
                    => encode(Prefix(n)) = encode(Prefix(n - 1))

(***************************************************************************)
(* C21: the fields flagged omit, unusedKeys or decodedFields.               *)
(***************************************************************************)
\* a field has one of the flags that keep it out of the output
Flagged(f) ==
    LET meta == extractFieldMeta(f)
    IN meta.omit \/ meta.unusedKeys \/ meta.decodedFields

RECURSIVE FieldsOf(_)
\* the fields of the records in a value, at every depth
FieldsOf(v) ==
    CASE v.k = "struct" ->
            UNION {{v.fields[n]} \cup FieldsOf(v.fields[n].val) : n \in 1..Len(v.fields)}
      [] v.k \in {"ptr", "interface"} -> IF v.nil THEN {} ELSE FieldsOf(v.elem)
      [] v.k = "slice" -> UNION {FieldsOf(v.el[n]) : n \in 1..Len(v.el)}
      [] v.k = "map" -> UNION {FieldsOf(v.ent[n].val) : n \in 1..Len(v.ent)}
      [] OTHER -> {}

RECURSIVE KeysIn(_)
\* the keys of the maps in a value, at every depth
KeysIn(v) ==
    CASE v.k = "struct" -> UNION {KeysIn(v.fields[n].val) : n \in 1..Len(v.fields)}
      [] v.k \in {"ptr", "interface"} -> IF v.nil THEN {} ELSE KeysIn(v.elem)
      [] v.k = "slice" -> UNION {KeysIn(v.el[n]) : n \in 1..Len(v.el)}
      [] v.k = "map" ->
            UNION {{v.ent[n].key} \cup KeysIn(v.ent[n].val) : n \in 1..Len(v.ent)}
      [] OTHER -> {}

\* the names the output has: of attributes, of block types, of the keys of
\* object literals
NamesIn(tkns) ==
    {tkns[m].name : m \in {n \in 1..Len(tkns) : "name" \in DOMAIN tkns[n]}}

\* a flagged field whose name no unflagged field and no map key has
FlaggedAlone(f) ==
    /\ Flagged(f)
    /\ \A g \in FieldsOf(in) :
            ~Flagged(g) => extractFieldMeta(g).name # extractFieldMeta(f).name
    /\ extractFieldMeta(f).name \notin KeysIn(in)

\* C21: a field flagged omit, unusedKeys or decodedFields never appears in
\* the output, whether its record is rendered as a block or as an inline
\* object literal in a list-valued attribute or a map value: when Encode
\* gives bytes, they have nothing of the name of a flagged field.
C21_FlaggedFieldNeverAppears ==
    (Done /\ out.kind = "ok") =>
        \A f \in FieldsOf(in) :
            FlaggedAlone(f) => extractFieldMeta(f).name \notin NamesIn(out.bytes)

(***************************************************************************)
(* C22: absent elements in a list literal.                                 *)
(***************************************************************************)
\* field n of the root record holds a sequence of pointers that is rendered
\* as a list literal, and no other field has its name
PointerSequence(n) ==
    LET f == in.fields[n]
        meta == extractFieldMeta(f)
    IN /\ ~meta.key /\ ~meta.squash /\ ~SkipsField(meta, f.val) /\ ~WantsBlocks(meta)
       /\ f.val.k = "slice" /\ ~f.val.nil
       /\ \A m \in 1..Len(f.val.el) : f.val.el[m].k = "ptr"
       /\ \A m \in 1..FieldCount :
            m # n => extractFieldMeta(in.fields[m]).name # meta.name

\* the elements of a sequence that are not nil, in order
PresentElements(v) == SelectSeq(v.el, LAMBDA e : ~deref(e).isNil)

\* the tokens of the list literal field n gives
ListTokens(n) ==
    SelectSeq(RootBlock.body,
              LAMBDA item : item.it = "attr"
                            /\ item.name = extractFieldMeta(in.fields[n]).name)[1].tokens

\* C22: in the list literal of a sequence of pointers to scalars or to
\* records the nil elements are skipped: the literal has exactly the present
\* elements in order, separated by single commas, with no empty element, no
\* two adjacent commas and no comma directly before the closing bracket.
C22_NilElementsSkipped ==
    Encoded =>
        \A n \in 1..FieldCount :
            PointerSequence(n) =>
                LET meta == extractFieldMeta(in.fields[n])
                    present == PresentElements(in.fields[n].val)
                    literals == [m \in 1..Len(present) |-> tokenize(present[m], meta).v]
                    tkns == ListTokens(n)
                IN /\ tkns = <<tokenOBrack>> \o JoinWithCommas(literals) \o <<tokenCBrack>>
                   /\ \A m \in 1..(Len(tkns) - 1) :
                        /\ tkns[m] = tokenComma => tkns[m + 1] \notin {tokenComma, tokenCBrack}
                        /\ tkns[m] = tokenOBrack => tkns[m + 1] # tokenComma

(***************************************************************************)
(* C23: Encode of an absent root.                                          *)
(***************************************************************************)
\* the root is untyped nil, a nil pointer, a nil interface, a nil slice or
\* a nil map
AbsentRoot ==
    \/ in.k = "invalid"
    \/ in.k \in {"ptr", "interface", "slice", "map"} /\ in.nil

\* C23: Encode of an absent root value ends with an ordinary result, bytes
\* or a returned error, and never with a crash.
C23_AbsentRootEndsOrdinarily ==
    (Done /\ AbsentRoot) => out.kind \in {"ok", "err"}

(***************************************************************************)
(* C24: the order of the entries of a block.                               *)
(***************************************************************************)
\* the entry a field contributes to the body of the block of its record:
\* one attribute, one nested block, the blocks of a block list, the spliced
\* entries of a squashed record; nothing for an omitted, absent or key field
EntryOf(f) == BlockOf(Struct(<<f>>)).body

RECURSIVE EntriesInOrder(_)
\* the entries of the fields, each after the entries of the earlier fields
EntriesInOrder(fields) ==
    IF fields = <<>> THEN <<>>
    ELSE EntryOf(Head(fields)) \o EntriesInOrder(Tail(fields))

\* C24: the body of the block encodeStruct produces lists its entries in
\* field-declaration order: every field contributes its entry after the
\* entries of all earlier fields and before those of all later fields, and
\* no entry is dropped or replaced by that of another field, also when two
\* fields resolve to the same output name.
C24_EntriesInDeclarationOrder ==
    Encoded => RootBlock.body = EntriesInOrder(in.fields)

====
